---------------------------- MODULE Spec2Model ----------------------------
(***************************************************************************)
(* A model of manta-chum: the main thread (src/src/main.rs), the worker    *)
(* threads (src/src/worker.rs), the write operation (src/src/writer.rs),   *)
(* and the parts of the repository whose source is not available (the      *)
(* object queue and the statistics collector), which are modelled from the *)
(* specification.                                                          *)
(***************************************************************************)
EXTENDS Naturals, Sequences, FiniteSets, TLC

(***************************************************************************)
(* Bounds of the model.                                                    *)
(***************************************************************************)
\* conc: the number of worker threads (-c).
NumWorkers == 2
\* The fixed capacity C of the object queue.
Capacity == 2
\* The queue's own specification stops after this many inserts.
MaxInserts == 4
\* The results channel is unbounded; the model lets at most this many
\* results wait in it.
MaxChan == 1
\* The absolute data cap given with -m, in bytes.
CapBytes == 2
MaxSends == 3        \* results one worker sends, in the channel's specification
MaxRecs == 3         \* records aggregated, in the aggregate's specification
MaxSecs == 1         \* the longest elapsed time a rate is rendered for
MaxWrites == 3       \* writes started, in the writer's specification

Workers == 1..NumWorkers

\* The object identifiers the queue's own specification inserts.
Ids == 1..(Capacity + 1)

\* The identifier of a written object (Uuid::new_v4). Nothing in the program
\* reads an identifier but the target: the model of the threads gives every
\* written object the same one.
NewId == "obj"

\* The size distribution (-d), expanded: one size, of one byte.
Distr == {1}

\* The operation mix (-w), expanded: DEF_WORKLOAD.
Ops == {"r", "w"}

\* The queue modes (-q).
QueueModes == {"lru", "mru", "rand"}

\* What the target answers to a PUT.
ResponseCodes == {201, 204, 500}

None == [tag |-> "none"]

VARIABLES
    optP,       \* -p as given: None or a percentage
    optM,       \* -m as given: None or a byte count
    qmode,      \* the queue mode
    cap,        \* main's `cap`: None, or the DataCap chosen
    mpc,        \* where the main thread is
    spawned,    \* how many worker threads main has spawned
    joined,     \* how many worker threads main has joined
    pc,         \* where each worker thread is
    res,        \* the backend's result each worker holds
    queue,      \* the object queue's items, oldest first
    chan,       \* the results channel, oldest first
    sig,        \* each worker's stop channel: the messages waiting in it
    cpc,        \* where the collector thread is
    nextSig,    \* the next worker the collector's broadcast signals
    written,    \* the collector's cumulative bytes written
    stops,      \* history: the stop signals ever put on each stop channel
    hist,       \* history: the identifiers inserted, while nothing was taken
    taken,      \* history: an item was taken from the queue
    got,        \* what the last take() returned
    sentLog,    \* history: the results each worker has sent, in order
    recvLog,    \* history: the results received from each worker, in order
    recs,       \* the records given to be aggregated
    left,       \* the positions in recs of the records not yet aggregated
    parts,      \* two WorkerStats, each record being added to one of them
    rendered,   \* what the last serialize_* call produced
    cfg,        \* what the command line asks for
    smap,       \* where the state-trace listener thread is
    seeded,     \* history: the queue was seeded from the read list
    debugTx,    \* main holds its sender of the state-trace channel
    lock,       \* the worker that holds the queue's mutex, or 0
    put,        \* each worker's write under way: its identifier, size, answer
    uuids       \* the identifiers generated so far

vars == <<optP, optM, qmode, cap, mpc, spawned, joined, pc, res, queue, chan,
          sig, cpc, nextSig, written, stops, hist, taken, got,
          sentLog, recvLog, recs, left, parts, rendered,
          cfg, smap, seeded, debugTx, lock, put, uuids>>

mainVars == <<optP, optM, qmode, cap, mpc, spawned, joined>>
collVars == <<cpc, nextSig, written>>
\* What only the specifications of the parts read and write.
chanLogs == <<sentLog, recvLog>>
statVars == <<recs, left, parts, rendered>>
bootVars == <<cfg, smap, seeded, debugTx>>
lockVars == <<lock, put, uuids>>
auxVars == <<got, chanLogs, statVars, bootVars, lockVars>>
histVars == <<stops, hist, taken, auxVars>>

Min(a, b) == IF a < b THEN a ELSE b

Some(v) == [tag |-> "some", val |-> v]

(***************************************************************************)
(* The object queue (its source is not available: from the specification). *)
(***************************************************************************)
\* A queue that, when full, keeps what it holds and drops the new item.
QInsert_DropsNewest(q, item) ==
    IF Len(q) >= Capacity THEN q ELSE Append(q, item)

\* insert(item): append; beyond the capacity the oldest item is evicted.
QInsert(q, item) ==
    LET a == Append(q, item)
    IN  IF Len(a) > Capacity THEN Tail(a) ELSE a

\* A choice that takes the newest item in lru mode and the oldest in mru.
QTakeIdx_Swapped(q, mode) ==
    CASE mode = "lru" -> {Len(q)}
      [] mode = "mru" -> {1}
      [] OTHER        -> 1..Len(q)

\* The positions take() may choose in a non-empty queue, per mode.
QTakeIdx(q, mode) ==
    CASE mode = "lru" -> {1}
      [] mode = "mru" -> {Len(q)}
      [] OTHER        -> 1..Len(q)

\* The queue without the item at position i.
QRemove(q, i) == SubSeq(q, 1, i - 1) \o SubSeq(q, i + 1, Len(q))

\* A take() that fails on an empty queue.
QTake_EmptyFails(q, mode) ==
    IF q = <<>>
    THEN {[item |-> [tag |-> "err"], rest |-> q]}
    ELSE {[item |-> Some(q[i]), rest |-> QRemove(q, i)] : i \in QTakeIdx(q, mode)}

\* take(): what it may return, with the queue it leaves: no item from an
\* empty queue, otherwise the item the mode chooses, removed.
QTake(q, mode) ==
    IF q = <<>>
    THEN {[item |-> None, rest |-> q]}
    ELSE {[item |-> Some(q[i]), rest |-> QRemove(q, i)] : i \in QTakeIdx(q, mode)}

\* The last n items of a sequence.
LastN(s, n) == IF Len(s) <= n THEN s ELSE SubSeq(s, Len(s) - n + 1, Len(s))

(***************************************************************************)
(* The main thread, up to the joins.                                       *)
(***************************************************************************)
\* main.rs: the choice of the data cap from -p and -m.
SelectCap(p, m) ==
    IF p.tag = "some" THEN Some([kind |-> "Percentage", val |-> p.val])
    ELSE IF m.tag = "some" THEN Some([kind |-> "LogicalData", val |-> m.val])
    ELSE None

\* The process lives until main returns or panics.
ProcAlive == mpc \notin {"done", "failed", "exited"}

(***************************************************************************)
(* WorkerStat (worker.rs 34-84).                                           *)
(***************************************************************************)
\* WorkerStat::new(), and what clear() leaves.
WorkerStatNew == [objs |-> 0, data |-> 0, ttfb |-> 0, rtt |-> 0]

\* An add_result that keeps the size of the last record only.
AddResult_Overwrites(stat, r) ==
    [objs |-> stat.objs + 1,
     data |-> r.size,
     ttfb |-> stat.ttfb + r.ttfb,
     rtt  |-> stat.rtt + r.rtt]

\* worker.rs 55-60. The sums stay far below 2^64.
AddResult(stat, r) ==
    [objs |-> stat.objs + 1,
     data |-> stat.data + r.size,
     ttfb |-> stat.ttfb + r.ttfb,
     rtt  |-> stat.rtt + r.rtt]

\* An integer division by zero panics.
DivByZero == [tag |-> "panic", msg |-> "attempt to divide by zero"]

\* worker.rs 41-44: whole megabytes.
BytesToHuman(bytes) == (bytes \div 1024) \div 1024

\* worker.rs 70-74: the fields of the line it formats.
SerializeRelative(stat) ==
    IF stat.objs = 0 THEN DivByZero
    ELSE [objs |-> stat.objs,
          data |-> BytesToHuman(stat.data),
          ttfb |-> stat.ttfb \div stat.objs,
          rtt  |-> stat.rtt \div stat.objs]

\* worker.rs 80-84: the fields of the line it formats.
SerializeAbsolute(stat, d) ==
    IF d = 0 THEN DivByZero
    ELSE [objs |-> stat.objs,
          data |-> BytesToHuman(stat.data),
          secs |-> d,
          rate |-> stat.objs \div d,
          thru |-> BytesToHuman(stat.data \div d)]

\* Nothing is given to be aggregated.
StatIdle ==
    /\ recs = <<>>
    /\ left = {}
    /\ parts = <<WorkerStatNew, WorkerStatNew>>
    /\ rendered = None

(***************************************************************************)
(* The command line.                                                       *)
(***************************************************************************)
\* -t, split at ':' as Worker::new does: a protocol and an address, an
\* unknown protocol, no address.
Targets == {<<"fs", "dir">>, <<"S3", "host">>, <<"webdav", "host">>,
            <<"ftp", "host">>, <<"fs">>}

\* -D or not, -r with a readable or an unreadable list or none, -d well or
\* ill formed, -c below 1 or not, -t.
Cfgs == [debug : BOOLEAN, readlist : {"none", "ok", "bad"},
         distr : {"ok", "bad"}, conc : {0, NumWorkers}, target : Targets]

\* No -D, no -r, the default distribution, -c NumWorkers, a known protocol.
DefaultCfg == [debug |-> FALSE, readlist |-> "none", distr |-> "ok",
               conc |-> NumWorkers, target |-> <<"fs", "dir">>]

\* to_ascii_lowercase, on the protocols of Targets.
Lower(str) == IF str = "S3" THEN "s3" ELSE str

\* worker.rs 135-160: where Worker::new leaves the thread that calls it: in
\* work(), or panicked on tok[1] or on an unknown protocol.
WorkerNew(target) ==
    IF Len(target) < 2 THEN "panicked"
    ELSE IF Lower(target[1]) \in {"webdav", "s3", "fs"} THEN "loop"
    ELSE "panicked"

RECURSIVE QInsertAll(_, _)
\* The lines of the read list, all read: the queue they leave.
QInsertAll(q, items) ==
    IF items = <<>> THEN q
    ELSE QInsertAll(QInsert(q, Head(items)), Tail(items))

\* The command line is the one of a run that starts.
BootIdle ==
    /\ cfg = DefaultCfg
    /\ smap = "unborn"
    /\ seeded = FALSE
    /\ debugTx = FALSE

\* No write is under way: the mutex is free.
NoPut == [fname |-> 0, size |-> 0, code |-> 0]

LockIdle ==
    /\ lock = 0
    /\ put = [w \in Workers |-> NoPut]
    /\ uuids = 0

\* Nothing has been sent on the results channel.
ChanIdle ==
    /\ sentLog = [w \in Workers |-> <<>>]
    /\ recvLog = [w \in Workers |-> <<>>]

\* The state before main has done anything, but for the queue mode and for
\* what only the specifications of the parts use.
InitMem ==
    /\ optP \in {None, Some(50)}
    /\ optM \in {None, Some(CapBytes)}
    /\ cap = None
    /\ spawned = 0
    /\ joined = 0
    /\ res = [w \in Workers |-> None]
    /\ queue = <<>>
    /\ chan = <<>>
    /\ sig = [w \in Workers |-> 0]
    /\ cpc = "unborn"
    /\ nextSig = 1
    /\ written = 0
    /\ stops = [w \in Workers |-> 0]
    /\ hist = <<>>
    /\ taken = FALSE
    /\ got = None

\* main has checked the command line and is about to choose the cap.
InitSys ==
    /\ mpc = "start"
    /\ pc = [w \in Workers |-> "unborn"]
    /\ InitMem

InitRest == InitSys /\ ChanIdle /\ StatIdle /\ BootIdle /\ LockIdle

\* The queue mode is DEF_QUEUE_MODE: rand may take any item, the one lru or
\* mru would take among them. -m is given, -p is or is not: the cap is an
\* absolute or a percentage one (a run with no cap is that of a percentage
\* cap never reached).
Init ==
    /\ qmode = "rand"
    /\ InitRest
    /\ optM # None

\* main.rs 162-184: with -D the state-trace listener thread is spawned,
\* unless -m is missing.
MainTrace ==
    /\ mpc = "args"
    /\ IF cfg.debug
       THEN IF optM = None
            THEN mpc' = "exited" /\ UNCHANGED <<smap, debugTx>>
            ELSE mpc' = "seed" /\ smap' = "running" /\ debugTx' = TRUE
       ELSE mpc' = "seed" /\ UNCHANGED <<smap, debugTx>>
    /\ UNCHANGED <<optP, optM, qmode, cap, spawned, joined, pc, res, queue,
                   chan, sig, collVars, stops, hist, taken, got, chanLogs,
                   statVars, cfg, seeded, lockVars>>

\* A main that goes on when the read list cannot be read.
MainSeed_IgnoresFailure ==
    /\ mpc = "seed"
    /\ mpc' = "distr"
    /\ IF cfg.readlist = "ok"
       THEN /\ queue' = QInsertAll(queue, [i \in 1..(Capacity + 1) |-> NewId])
            /\ seeded' = TRUE
       ELSE UNCHANGED <<queue, seeded>>
    /\ UNCHANGED <<optP, optM, qmode, cap, spawned, joined, pc, res, chan,
                   sig, collVars, stops, hist, taken, got, chanLogs,
                   statVars, cfg, smap, debugTx, lockVars>>

\* main.rs 219-230: with -r the queue is seeded from the read list; main
\* returns if that fails.
MainSeed ==
    /\ mpc = "seed"
    /\ CASE cfg.readlist = "none" ->
              mpc' = "distr" /\ UNCHANGED <<queue, seeded>>
         [] cfg.readlist = "ok" ->
              /\ mpc' = "distr"
              /\ queue' = QInsertAll(queue, [i \in 1..(Capacity + 1) |-> NewId])
              /\ seeded' = TRUE
         [] OTHER ->
              mpc' = "exited" /\ UNCHANGED <<queue, seeded>>
    /\ UNCHANGED <<optP, optM, qmode, cap, spawned, joined, pc, res, chan,
                   sig, collVars, stops, hist, taken, got, chanLogs,
                   statVars, cfg, smap, debugTx, lockVars>>

\* main.rs 238-258: main returns on an ill-formed size distribution.
MainDistr ==
    /\ mpc = "distr"
    /\ mpc' = IF cfg.distr = "ok" THEN "conc" ELSE "exited"
    /\ UNCHANGED <<optP, optM, qmode, cap, spawned, joined, pc, res, queue,
                   chan, sig, collVars, histVars>>

\* main.rs 260-263: main returns on a concurrency below 1.
MainConc ==
    /\ mpc = "conc"
    /\ mpc' = IF cfg.conc < 1 THEN "exited" ELSE "start"
    /\ UNCHANGED <<optP, optM, qmode, cap, spawned, joined, pc, res, queue,
                   chan, sig, collVars, histVars>>

\* main.rs 265-277: cap is None, Percentage(p) or LogicalData(m).
MainSelectCap ==
    /\ mpc = "start"
    /\ cap' = SelectCap(optP, optM)
    /\ mpc' = "spawn"
    /\ UNCHANGED <<optP, optM, qmode, spawned, joined, pc, res, queue, chan,
                   sig, collVars, histVars>>

\* main.rs 286-299: one turn of the loop that spawns the worker threads.
MainSpawnWorker ==
    /\ mpc = "spawn"
    /\ spawned < NumWorkers
    /\ spawned' = spawned + 1
    /\ pc' = [pc EXCEPT ![spawned + 1] = WorkerNew(cfg.target)]
    /\ UNCHANGED <<optP, optM, qmode, cap, mpc, joined, res, queue, chan,
                   sig, collVars, histVars>>

\* main.rs 302-304: the statistics thread is spawned after the workers.
\* drop(debug_tx) comes next: without -D it drops None, which does nothing.
MainSpawnStat ==
    /\ mpc = "spawn"
    /\ spawned = NumWorkers
    /\ cpc' = "sleep"
    /\ mpc' = IF debugTx THEN "drop" ELSE "joinStat"
    /\ UNCHANGED <<optP, optM, qmode, cap, spawned, joined, pc, res, queue,
                   chan, sig, nextSig, written, histVars>>

\* main.rs 306-314: drop(debug_tx): main gives up its sender of the
\* state-trace channel.
MainDropTrace ==
    /\ mpc = "drop"
    /\ debugTx' = FALSE
    /\ mpc' = "joinStat"
    /\ UNCHANGED <<optP, optM, qmode, cap, spawned, joined, pc, res, queue,
                   chan, sig, collVars, stops, hist, taken, got, chanLogs,
                   statVars, cfg, smap, seeded, lockVars>>

\* main.rs 319: stat_thread.join() returns once the collector has returned.
MainJoinStat ==
    /\ mpc = "joinStat"
    /\ cpc = "done"
    /\ mpc' = "joinWorkers"
    /\ UNCHANGED <<optP, optM, qmode, cap, spawned, joined, pc, res, queue,
                   chan, sig, collVars, histVars>>

\* main.rs 321-329: hdl.join().expect(..) on the next worker thread. join()
\* returns once the thread has ended, Err when it ended by a panic, and expect
\* then panics in main; after the last Ok main joins the state-trace
\* listener thread if there is one (-D), which returns once that thread has
\* ended, and returns.
MainJoinWorker ==
    /\ mpc = "joinWorkers"
    /\ IF joined < NumWorkers
       THEN /\ pc[joined + 1] \in {"returned", "panicked"}
            /\ IF pc[joined + 1] = "panicked"
               THEN mpc' = "failed" /\ joined' = joined
               ELSE /\ joined' = joined + 1
                    /\ mpc' = IF joined + 1 = NumWorkers /\ ~cfg.debug
                              THEN "done" ELSE mpc
       ELSE /\ smap = "done"
            /\ mpc' = "done"
            /\ joined' = joined
    /\ UNCHANGED <<optP, optM, qmode, cap, spawned, pc, res, queue, chan,
                   sig, collVars, histVars>>

MainStep ==
    \/ MainSelectCap
    \/ MainSpawnWorker
    \/ MainSpawnStat
    \/ MainJoinStat
    \/ MainJoinWorker

(***************************************************************************)
(* The backend operations.                                                 *)
(***************************************************************************)
Range(s) == {s[i] : i \in 1..Len(s)}

OkSome(op, size) == [tag |-> "some", op |-> op, size |-> size]
Err == [tag |-> "err"]

\* writer.rs 64-130: a size from the distribution, a new identifier, the PUT;
\* on 201 or 204 the identifier is inserted in the queue and the record
\* returned, on any other answer an error is returned.
WriterWork(w) ==
    \E size \in Distr, code \in ResponseCodes :
        IF code = 201 \/ code = 204
        THEN /\ queue' = QInsert(queue, NewId)
             /\ res' = [res EXCEPT ![w] = OkSome("write", size)]
        ELSE /\ res' = [res EXCEPT ![w] = Err]
             /\ UNCHANGED queue

\* read() and delete() (their source is not available: from the
\* specification): an item is taken from the queue by the queue's mode; with
\* none to take the operation is a no-op, otherwise it succeeds or fails.
TakerWork(w, op) ==
    IF queue = <<>>
    THEN /\ res' = [res EXCEPT ![w] = None]
         /\ UNCHANGED queue
    ELSE \E i \in QTakeIdx(queue, qmode), ok \in BOOLEAN :
            /\ queue' = QRemove(queue, i)
            /\ res' = [res EXCEPT ![w] = IF ok THEN OkSome(op, 0) ELSE Err]

(***************************************************************************)
(* The worker threads.                                                     *)
(***************************************************************************)
\* The collector holds the receiver of the results channel and the senders
\* of the stop channels until it returns.
CollectorGone == cpc = "done"

\* A poll that takes only a message for a stop.
ShouldStop_IgnoresDisconnect(w) == sig[w] > 0

\* worker.rs 236-241: try_recv() on the stop channel: a message, or a
\* dropped sender, is a stop.
ShouldStop(w) == sig[w] > 0 \/ CollectorGone

\* try_recv() takes the message it returns.
SigAfterPoll(w) == IF sig[w] > 0 THEN [sig EXCEPT ![w] = sig[w] - 1] ELSE sig

\* worker.rs 204-214: the top of the loop: an operation is chosen from the mix
\* and the backend called.
BackendOp(w) ==
    /\ ProcAlive
    /\ pc[w] = "loop"
    /\ \E o \in Ops :
          CASE o = "w" -> WriterWork(w)
            [] o = "r" -> TakerWork(w, "read")
            [] OTHER   -> TakerWork(w, "delete")
    /\ pc' = [pc EXCEPT ![w] = "result"]
    /\ UNCHANGED <<mainVars, chan, sig, collVars, histVars>>

\* A process_result that logs an error instead of sending it.
ProcessResult_DropsErrors(w) ==
    /\ ProcAlive
    /\ pc[w] = "result"
    /\ IF res[w].tag = "none"
       THEN /\ pc' = [pc EXCEPT ![w] = "sleep"]
            /\ UNCHANGED <<res, sig>>
       ELSE /\ sig' = SigAfterPoll(w)
            /\ IF ShouldStop(w) \/ res[w].tag = "err"
               THEN /\ res' = [res EXCEPT ![w] = None]
                    /\ pc' = [pc EXCEPT ![w] = "sleep"]
               ELSE /\ pc' = [pc EXCEPT ![w] = "send"]
                    /\ UNCHANGED res
    /\ UNCHANGED <<mainVars, queue, chan, collVars, histVars>>

\* A process_result that polls the stop channel before it looks at the
\* result, and so for Ok(None) too.
ProcessResult_PollsFirst(w) ==
    /\ ProcAlive
    /\ pc[w] = "result"
    /\ sig' = SigAfterPoll(w)
    /\ IF res[w].tag = "none" \/ ShouldStop(w)
       THEN /\ res' = [res EXCEPT ![w] = None]
            /\ pc' = [pc EXCEPT ![w] = "sleep"]
       ELSE /\ pc' = [pc EXCEPT ![w] = "send"]
            /\ UNCHANGED res
    /\ UNCHANGED <<mainVars, queue, chan, collVars, histVars>>

\* worker.rs 171-199: process_result up to the send: Ok(None) is dropped
\* without a poll; a record or an error is dropped when the poll reports a
\* stop, and process_result returns to the loop, which goes on to sleep().
ProcessResult(w) ==
    /\ ProcAlive
    /\ pc[w] = "result"
    /\ IF res[w].tag = "none"
       THEN /\ pc' = [pc EXCEPT ![w] = "sleep"]
            /\ UNCHANGED <<res, sig>>
       ELSE /\ sig' = SigAfterPoll(w)
            /\ IF ShouldStop(w)
               THEN /\ res' = [res EXCEPT ![w] = None]
                    /\ pc' = [pc EXCEPT ![w] = "sleep"]
               ELSE /\ pc' = [pc EXCEPT ![w] = "send"]
                    /\ UNCHANGED res
    /\ UNCHANGED <<mainVars, queue, chan, collVars, histVars>>

\* What a worker's result is on the channel: of a WorkerInfo the model keeps
\* the operation and the size, and an error counts as an operation of its own.
Sent(w) ==
    IF res[w].tag = "err"
    THEN [op |-> "error", size |-> 0]
    ELSE [op |-> res[w].op, size |-> res[w].size]

\* worker.rs 226-234: send_info: the send, and a panic when the receiver is
\* gone.
SendInfo(w) ==
    /\ ProcAlive
    /\ pc[w] = "send"
    /\ IF CollectorGone
       THEN /\ pc' = [pc EXCEPT ![w] = "panicked"]
            /\ UNCHANGED chan
       ELSE /\ Len(chan) < MaxChan
            /\ chan' = Append(chan, Sent(w))
            /\ pc' = [pc EXCEPT ![w] = "sleep"]
    /\ res' = [res EXCEPT ![w] = None]
    /\ UNCHANGED <<mainVars, queue, sig, collVars, histVars>>

\* worker.rs 216-224: sleep(), and back to the top of the loop.
Sleep(w) ==
    /\ ProcAlive
    /\ pc[w] = "sleep"
    /\ pc' = [pc EXCEPT ![w] = "loop"]
    /\ UNCHANGED <<mainVars, res, queue, chan, sig, collVars, histVars>>

WorkerStep(w) ==
    \/ BackendOp(w)
    \/ ProcessResult(w)
    \/ SendInfo(w)
    \/ Sleep(w)

(***************************************************************************)
(* The statistics collector (its source is not available: from the         *)
(* specification).                                                         *)
(***************************************************************************)
RECURSIVE BytesWritten(_)
\* The bytes of the write records of a batch.
BytesWritten(batch) ==
    IF batch = <<>> THEN 0
    ELSE (IF Head(batch).op = "write" THEN Head(batch).size ELSE 0)
         + BytesWritten(Tail(batch))

\* The cumulative bytes written after a batch is folded in. The collector
\* only compares the total with the cap: the model keeps it up to CapBytes.
Fold(total, batch) == Min(total + BytesWritten(batch), CapBytes)

\* Whether the cap is crossed; a percentage cap is decided by a probe of the
\* target's file system.
CapCrossed(total, full) ==
    /\ cap.tag = "some"
    /\ IF cap.val.kind = "LogicalData" THEN total >= cap.val.val ELSE full

\* One interval: the results waiting are drained and folded, and the cap
\* checked; when it is crossed the broadcast begins.
CollectorTick ==
    /\ ProcAlive
    /\ cpc = "sleep"
    /\ chan' = <<>>
    /\ written' = Fold(written, chan)
    /\ \E full \in BOOLEAN :
          IF CapCrossed(written', full)
          THEN cpc' = "signal" /\ nextSig' = 1
          ELSE UNCHANGED <<cpc, nextSig>>
    /\ UNCHANGED <<mainVars, pc, res, queue, sig, histVars>>

\* A broadcast that ends after its first signal.
CollectorSignal_FirstOnly ==
    /\ ProcAlive
    /\ cpc = "signal"
    /\ sig' = [sig EXCEPT ![nextSig] = sig[nextSig] + 1]
    /\ stops' = [stops EXCEPT ![nextSig] = stops[nextSig] + 1]
    /\ nextSig' = nextSig + 1
    /\ cpc' = "lastsleep"
    /\ UNCHANGED <<mainVars, pc, res, queue, chan, written, hist, taken, auxVars>>

\* The broadcast: one stop signal on the next worker's stop channel.
CollectorSignal ==
    /\ ProcAlive
    /\ cpc = "signal"
    /\ sig' = [sig EXCEPT ![nextSig] = sig[nextSig] + 1]
    /\ stops' = [stops EXCEPT ![nextSig] = stops[nextSig] + 1]
    /\ nextSig' = nextSig + 1
    /\ cpc' = IF nextSig = NumWorkers THEN "lastsleep" ELSE cpc
    /\ UNCHANGED <<mainVars, pc, res, queue, chan, written, hist, taken, auxVars>>

\* The interval after the broadcast: the last drain, and the collector
\* returns, dropping its receiver and the stop senders.
CollectorLastTick ==
    /\ ProcAlive
    /\ cpc = "lastsleep"
    /\ chan' = <<>>
    /\ written' = Fold(written, chan)
    /\ cpc' = "done"
    /\ UNCHANGED <<mainVars, pc, res, queue, sig, nextSig, histVars>>

CollectorStep ==
    \/ CollectorTick
    \/ CollectorSignal
    \/ CollectorLastTick

Next ==
    \/ MainStep
    \/ \E w \in Workers : WorkerStep(w)
    \/ CollectorStep

Spec == Init /\ [][Next]_vars

(***************************************************************************)
(* The run with -D: the state-trace listener thread (its source is not     *)
(* available) receives until every sender of its channel is dropped.       *)
(***************************************************************************)
\* A worker thread holds the clone of the sender that main gave it
\* (main.rs 293) until it ends.
HoldsTraceSender(w) == pc[w] \notin {"unborn", "returned", "panicked"}

\* state_listener returns when no sender of its channel is left.
SmapExit ==
    /\ ProcAlive
    /\ smap = "running"
    /\ ~debugTx
    /\ \A w \in Workers : ~HoldsTraceSender(w)
    /\ smap' = "done"
    /\ UNCHANGED <<mainVars, pc, res, queue, chan, sig, collVars, stops, hist,
                   taken, got, chanLogs, statVars, cfg, seeded, debugTx,
                   lockVars>>

\* main.rs 162-263 with -D and -m: the listener thread runs, main holds its
\* sender and has checked the command line.
TraceInit ==
    /\ qmode = "rand"
    /\ InitSys
    /\ optM # None
    /\ ChanIdle
    /\ StatIdle
    /\ LockIdle
    /\ cfg = [DefaultCfg EXCEPT !.debug = TRUE]
    /\ smap = "running"
    /\ seeded = FALSE
    /\ debugTx = TRUE

TraceNext == Next \/ MainDropTrace \/ SmapExit

TraceSpec == TraceInit /\ [][TraceNext]_vars

\* Every thread that can run does run.
FairSpec ==
    /\ Spec
    /\ WF_vars(MainStep)
    /\ WF_vars(CollectorStep)
    /\ \A w \in Workers : WF_vars(WorkerStep(w))

(***************************************************************************)
(* The object queue on its own: inserts and takes in any order, in each    *)
(* mode. hist and taken are the history of this specification.             *)
(***************************************************************************)
QueueInit ==
    /\ qmode \in QueueModes
    /\ InitRest
    /\ optP = None
    /\ optM = None

\* queue.insert(item), as writer.rs 117 calls it.
QueueInsertStep ==
    /\ Len(hist) < MaxInserts
    /\ \E id \in Ids :
          /\ queue' = QInsert(queue, id)
          /\ hist' = IF taken THEN hist ELSE Append(hist, id)
    /\ UNCHANGED <<mainVars, pc, res, chan, sig, collVars, stops, taken, auxVars>>

\* queue.take(), on any queue.
QueueTakeStep ==
    /\ \E t \in QTake(queue, qmode) :
          /\ got' = t.item
          /\ queue' = t.rest
    /\ taken' = TRUE
    /\ UNCHANGED <<mainVars, pc, res, chan, sig, collVars, stops, hist,
                   chanLogs, statVars, bootVars,
                   lockVars>>

QueueNext ==
    \/ QueueInsertStep
    \/ QueueTakeStep

QueueSpec == QueueInit /\ [][QueueNext]_vars

(***************************************************************************)
(* The claims.                                                             *)
(***************************************************************************)
\* A stop signal has been put on the worker's stop channel.
Signalled(w) == stops[w] > 0

\* The worker's poll has taken a stop signal, and so reported a stop.
Observed(w) == stops[w] > sig[w]

\* C1: once a worker's stop poll has reported a stop, the worker starts no
\* further backend operation (its loop has ended).
C1_StoppedWorkerStartsNothing ==
    [][\A w \in Workers :
          Observed(w) => ~(pc[w] = "loop" /\ pc'[w] = "result")]_vars

\* C2: no worker puts a result on the results channel after it has observed
\* the stop signal.
C2_NoSendAfterStop ==
    [][\A w \in Workers :
          Observed(w) =>
              ~(pc[w] = "send" /\ pc'[w] = "sleep" /\ chan' = Append(chan, Sent(w)))]_vars

\* With the absolute cap chosen.
AbsoluteCap == cap.tag = "some" /\ cap.val.kind = "LogicalData"

\* C3: with an absolute cap n, once the cumulative bytes written are n or
\* more the collector starts no further ordinary interval, and by its next
\* interval every worker's stop channel has been sent exactly one signal.
C3_StopReachesEveryWorker ==
    AbsoluteCap =>
        /\ written >= cap.val.val => cpc \in {"signal", "lastsleep", "done"}
        /\ cpc \in {"lastsleep", "done"} => \A w \in Workers : stops[w] = 1
        /\ cpc \in {"unborn", "sleep"} => \A w \in Workers : stops[w] = 0

C3_Witness ==
    /\ AbsoluteCap
    /\ written >= cap.val.val
    /\ cpc = "lastsleep"
    /\ \A w \in Workers : stops[w] = 1 /\ sig[w] = 1

\* C4: once the cap is crossed, the workers stop, the collector returns and
\* main's joins complete, so that the process ends (here: in any way, by
\* main's return or by its panic).
C4_CapEndsTheRun == (cpc = "signal") ~> ~ProcAlive

\* C5: a backend error, with no stop signalled to the worker, is polled once
\* and sent once as one error result; the worker goes on to sleep and to the
\* top of the loop, and neither it nor main ends.
C5_ErrorReportedOnce ==
    [][\A w \in Workers :
          (res[w].tag = "err" /\ ~Signalled(w) /\ pc'[w] # pc[w]) =>
              /\ pc[w] \in {"result", "send"}
              /\ pc[w] = "result" =>
                     pc'[w] = "send" /\ res'[w] = res[w] /\ chan' = chan
              /\ pc[w] = "send" =>
                     /\ chan' = Append(chan, [op |-> "error", size |-> 0])
                     /\ pc'[w] = "sleep"
                     /\ res'[w] = None
              /\ mpc' = mpc]_vars

C5_Witness ==
    \E w \in Workers :
        /\ ~Signalled(w)
        /\ pc[w] = "sleep"
        /\ chan # <<>>
        /\ chan[Len(chan)] = [op |-> "error", size |-> 0]

\* C6: a worker whose send failed ends alone: the process does not fail and
\* the other threads run on.
C6_SendFailureIsolated == (\E w \in Workers : pc[w] = "panicked") => ProcAlive

\* C7: main finishes only after the collector and every worker thread have
\* ended and been joined.
C7_MainJoinsAll ==
    ~ProcAlive =>
        /\ cpc = "done"
        /\ \A w \in Workers : pc[w] \in {"returned", "panicked"}

\* C8: after Ok(None) the worker sends nothing and polls nothing, goes to
\* sleep() and from there to the top of the loop.
C8_NoOpIsSilent ==
    [][\A w \in Workers :
          /\ (pc[w] = "result" /\ res[w].tag = "none" /\ pc'[w] # pc[w]) =>
                 /\ chan' = chan
                 /\ sig' = sig
                 /\ pc'[w] = "sleep"
          /\ (pc[w] = "sleep" /\ pc'[w] # pc[w]) => pc'[w] = "loop"]_vars

C8_Witness ==
    \E w \in Workers :
        pc[w] = "result" /\ res[w].tag = "none" /\ queue = <<>> /\ cpc = "sleep"

\* C9: when -p and -m are both given, the cap chosen is the absolute one.
C9_MaxDataPreferred ==
    (mpc # "start" /\ optP.tag = "some" /\ optM.tag = "some") => AbsoluteCap

\* C10: the queue never holds more than Capacity items, and while nothing
\* has been taken it holds exactly the last Capacity items inserted, in
\* every mode.
C10_QueueBounded ==
    /\ Len(queue) <= Capacity
    /\ ~taken => queue = LastN(hist, Capacity)

C10_Witness ==
    /\ ~taken
    /\ Len(hist) > Capacity
    /\ Len(queue) = Capacity
    /\ queue = LastN(hist, Capacity)
    /\ hist[1] \notin Range(queue)

(***************************************************************************)
(* The results channel on its own: the workers send, the collector         *)
(* receives.                                                               *)
(***************************************************************************)
\* The k-th result of worker w: WorkerInfo carries the worker's thread id.
Info(w, k) == [id |-> w, op |-> "w", size |-> k]

ChanInit ==
    /\ qmode = "rand"
    /\ optP = None
    /\ optM = None
    /\ InitSys
    /\ ChanIdle
    /\ StatIdle
    /\ BootIdle
    /\ LockIdle

\* A send that puts its result at the head of the channel.
ChanSend_Front(w) ==
    /\ cpc # "done"
    /\ Len(sentLog[w]) < MaxSends
    /\ LET r == Info(w, Len(sentLog[w]) + 1)
       IN  /\ chan' = <<r>> \o chan
           /\ sentLog' = [sentLog EXCEPT ![w] = Append(@, r)]
    /\ UNCHANGED <<mainVars, pc, res, queue, sig, collVars, stops, hist,
                   taken, got, recvLog, statVars, bootVars,
                   lockVars>>

\* worker.rs 226-234: tx.send(res) of a worker whose receiver is alive.
ChanSend(w) ==
    /\ cpc # "done"
    /\ Len(sentLog[w]) < MaxSends
    /\ LET r == Info(w, Len(sentLog[w]) + 1)
       IN  /\ chan' = Append(chan, r)
           /\ sentLog' = [sentLog EXCEPT ![w] = Append(@, r)]
    /\ UNCHANGED <<mainVars, pc, res, queue, sig, collVars, stops, hist,
                   taken, got, recvLog, statVars, bootVars,
                   lockVars>>

\* The collector receives the oldest result in the channel.
ChanRecv ==
    /\ cpc # "done"
    /\ chan # <<>>
    /\ recvLog' = [recvLog EXCEPT ![Head(chan).id] = Append(@, Head(chan))]
    /\ chan' = Tail(chan)
    /\ UNCHANGED <<mainVars, pc, res, queue, sig, collVars, stops, hist,
                   taken, got, sentLog, statVars, bootVars,
                   lockVars>>

\* The collector returns: the receiver is dropped with what it holds.
ChanClose ==
    /\ cpc # "done"
    /\ cpc' = "done"
    /\ chan' = <<>>
    /\ UNCHANGED <<mainVars, pc, res, queue, sig, nextSig, written, histVars>>

ChanNext == (\E w \in Workers : ChanSend(w)) \/ ChanRecv \/ ChanClose

ChanSpec == ChanInit /\ [][ChanNext]_vars

(***************************************************************************)
(* The aggregation of records on its own: any records, added in any order  *)
(* to either of two WorkerStats, which are rendered at any time.           *)
(***************************************************************************)
\* The size, ttfb and rtt of a WorkerInfo.
InfoSet == {[size |-> s, ttfb |-> t, rtt |-> t + 1] : s \in {1, 2}, t \in {1, 3}}

SeqsUpTo(S, n) == UNION {[1..k -> S] : k \in 0..n}

StatInit ==
    /\ qmode = "rand"
    /\ optP = None
    /\ optM = None
    /\ InitSys
    /\ ChanIdle
    /\ BootIdle
    /\ LockIdle
    /\ recs \in SeqsUpTo(InfoSet, MaxRecs)
    /\ left = DOMAIN recs
    /\ parts = <<WorkerStatNew, WorkerStatNew>>
    /\ rendered = None

\* add_result(&recs[i]) on one of the two WorkerStats.
StatFold(p, i) ==
    /\ i \in left
    /\ parts' = [parts EXCEPT ![p] = AddResult(@, recs[i])]
    /\ left' = left \ {i}
    /\ UNCHANGED <<mainVars, pc, res, queue, chan, sig, collVars, stops, hist,
                   taken, got, chanLogs, recs, rendered, bootVars,
                   lockVars>>

\* serialize_relative() on one of the two WorkerStats.
StatRelative(p) ==
    /\ rendered' = SerializeRelative(parts[p])
    /\ UNCHANGED <<mainVars, pc, res, queue, chan, sig, collVars, stops, hist,
                   taken, got, chanLogs, recs, left, parts, bootVars,
                   lockVars>>

\* serialize_absolute(d) on one of the two WorkerStats.
StatAbsolute(p, d) ==
    /\ rendered' = SerializeAbsolute(parts[p], d)
    /\ UNCHANGED <<mainVars, pc, res, queue, chan, sig, collVars, stops, hist,
                   taken, got, chanLogs, recs, left, parts, bootVars,
                   lockVars>>

StatNext ==
    \E p \in {1, 2} :
        \/ \E i \in DOMAIN recs : StatFold(p, i)
        \/ StatRelative(p)
        \/ \E d \in 0..MaxSecs : StatAbsolute(p, d)

StatSpec == StatInit /\ [][StatNext]_vars

(***************************************************************************)
(* main from its first line to the spawns, for every command line.         *)
(***************************************************************************)
StartupInit ==
    /\ qmode = "rand"
    /\ mpc = "args"
    /\ pc = [w \in Workers |-> "unborn"]
    /\ InitMem
    /\ ChanIdle
    /\ StatIdle
    /\ LockIdle
    /\ cfg \in Cfgs
    /\ smap = "unborn"
    /\ seeded = FALSE
    /\ debugTx = FALSE

StartupNext ==
    \/ MainTrace
    \/ MainSeed
    \/ MainDistr
    \/ MainConc
    \/ MainSelectCap
    \/ MainSpawnWorker
    \/ MainSpawnStat

StartupSpec == StartupInit /\ [][StartupNext]_vars

(***************************************************************************)
(* Writer::work statement by statement, with the queue's mutex: the        *)
(* workers only write.                                                     *)
(***************************************************************************)
\* What the PUT may end with: a response code, or 0 for a transfer that
\* fails before any response.
PutOutcomes == ResponseCodes \cup {0}

WriterInit ==
    /\ qmode = "rand"
    /\ mpc = "joinStat"
    /\ pc = [w \in Workers |-> "loop"]
    /\ InitMem
    /\ ChanIdle
    /\ StatIdle
    /\ BootIdle
    /\ LockIdle

\* writer.rs 67-82: a new identifier, a size, the request is set up.
WriterStart(w) ==
    /\ pc[w] = "loop"
    /\ uuids < MaxWrites
    /\ uuids' = uuids + 1
    /\ \E size \in Distr :
          put' = [put EXCEPT ![w] = [fname |-> uuids + 1, size |-> size,
                                     code |-> 0]]
    /\ pc' = [pc EXCEPT ![w] = "put"]
    /\ UNCHANGED <<mainVars, res, queue, chan, sig, collVars, stops, hist,
                   taken, got, chanLogs, statVars, bootVars, lock>>

\* A PUT that takes every response for a success.
WriterPut_AnyResponse(w) ==
    /\ pc[w] = "put"
    /\ \E code \in PutOutcomes :
          /\ put' = [put EXCEPT ![w].code = code]
          /\ IF code # 0
             THEN pc' = [pc EXCEPT ![w] = "lock"] /\ res' = res
             ELSE /\ pc' = [pc EXCEPT ![w] = "ret"]
                  /\ res' = [res EXCEPT ![w] = Err]
    /\ UNCHANGED <<mainVars, queue, chan, sig, collVars, stops, hist, taken,
                   got, chanLogs, statVars, bootVars, lock, uuids>>

\* writer.rs 94-109 and 126-129: the transfer and its response code; any
\* answer but 201 and 204 returns an error.
WriterPut(w) ==
    /\ pc[w] = "put"
    /\ \E code \in PutOutcomes :
          /\ put' = [put EXCEPT ![w].code = code]
          /\ IF code = 201 \/ code = 204
             THEN pc' = [pc EXCEPT ![w] = "lock"] /\ res' = res
             ELSE /\ pc' = [pc EXCEPT ![w] = "ret"]
                  /\ res' = [res EXCEPT ![w] = Err]
    /\ UNCHANGED <<mainVars, queue, chan, sig, collVars, stops, hist, taken,
                   got, chanLogs, statVars, bootVars, lock, uuids>>

\* A lock() that does not wait for the mutex to be free.
WriterLock_NoWait(w) ==
    /\ pc[w] = "lock"
    /\ lock' = w
    /\ pc' = [pc EXCEPT ![w] = "insert"]
    /\ UNCHANGED <<mainVars, res, queue, chan, sig, collVars, stops, hist,
                   taken, got, chanLogs, statVars, bootVars, put, uuids>>

\* writer.rs 117: self.queue.lock() returns when the mutex is free.
WriterLock(w) ==
    /\ pc[w] = "lock"
    /\ lock = 0
    /\ lock' = w
    /\ pc' = [pc EXCEPT ![w] = "insert"]
    /\ UNCHANGED <<mainVars, res, queue, chan, sig, collVars, stops, hist,
                   taken, got, chanLogs, statVars, bootVars, put, uuids>>

\* writer.rs 117-124: insert(), the guard is dropped at the end of the
\* statement, the record is returned.
WriterInsert(w) ==
    /\ pc[w] = "insert"
    /\ queue' = QInsert(queue, put[w].fname)
    /\ hist' = Append(hist, put[w].fname)
    /\ lock' = 0
    /\ res' = [res EXCEPT ![w] = OkSome("write", put[w].size)]
    /\ pc' = [pc EXCEPT ![w] = "ret"]
    /\ UNCHANGED <<mainVars, chan, sig, collVars, stops, taken, got,
                   chanLogs, statVars, bootVars, put, uuids>>

\* The worker has the result: it polls, sends and sleeps, then loops.
WriterReturn(w) ==
    /\ pc[w] = "ret"
    /\ pc' = [pc EXCEPT ![w] = "loop"]
    /\ res' = [res EXCEPT ![w] = None]
    /\ UNCHANGED <<mainVars, queue, chan, sig, collVars, histVars>>

WriterNext ==
    \E w \in Workers :
        \/ WriterStart(w)
        \/ WriterPut(w)
        \/ WriterLock(w)
        \/ WriterInsert(w)
        \/ WriterReturn(w)

WriterSpec == WriterInit /\ [][WriterNext]_vars

\* The sequence s without its item at position i.
Without(s, i) == [j \in 1..(Len(s) - 1) |-> IF j < i THEN s[j] ELSE s[j + 1]]

\* C11: take() on a queue that holds items returns one of them and removes
\* that one alone, the others keeping their order: the oldest in lru mode,
\* the newest in mru mode, any in rand mode.
C11_TakeByMode ==
    [][(QueueTakeStep /\ queue # <<>>) =>
          /\ got'.tag = "some"
          /\ \E i \in 1..Len(queue) :
                /\ got'.val = queue[i]
                /\ queue' = Without(queue, i)
                /\ qmode = "lru" => i = 1
                /\ qmode = "mru" => i = Len(queue)]_vars

C11_Witness ==
    /\ qmode = "mru"
    /\ taken
    /\ got.tag = "some"
    /\ Len(queue) = Capacity - 1
    /\ got.val \notin Range(queue)

\* C12: take() on an empty queue can be done, returns no item and leaves the
\* queue empty, in every mode.
C12_TakeFromEmpty ==
    [][/\ queue = <<>> => ENABLED QueueTakeStep
       /\ (QueueTakeStep /\ queue = <<>>) => (got' = None /\ queue' = <<>>)]_vars

C12_Witness == taken /\ got = None /\ queue = <<>> /\ hist # <<>>

\* The results of worker w in the channel, oldest first.
InFlight(w) == SelectSeq(chan, LAMBDA r : r.id = w)

IsPrefix(s, t) == Len(s) <= Len(t) /\ s = SubSeq(t, 1, Len(s))

\* C13: what the collector has received from a worker is, in order and
\* without repetition, the first results that worker sent; while the
\* collector is alive the others are still in the channel, in order.
C13_ExactlyOnceInOrder ==
    \A w \in Workers :
        /\ IsPrefix(recvLog[w], sentLog[w])
        /\ cpc # "done" => recvLog[w] \o InFlight(w) = sentLog[w]

C13_Witness ==
    /\ cpc # "done"
    /\ \A w \in Workers : Len(recvLog[w]) >= 2
    /\ Len(chan) >= 2
    /\ chan[1].id # chan[2].id

\* The field-wise sum of two WorkerStats.
Merge(a, b) ==
    [objs |-> a.objs + b.objs,
     data |-> a.data + b.data,
     ttfb |-> a.ttfb + b.ttfb,
     rtt  |-> a.rtt + b.rtt]

RECURSIVE SumOf(_, _)
\* The sum of field f of the records of recs at the positions in S.
SumOf(S, f) ==
    IF S = {} THEN 0
    ELSE LET i == CHOOSE j \in S : TRUE
         IN  recs[i][f] + SumOf(S \ {i}, f)

Folded == (DOMAIN recs) \ left

\* C14: however the records added so far were ordered and shared between
\* the two WorkerStats, the field-wise sum of the two counts these records
\* and holds the sums of their sizes, ttfbs and rtts.
C14_FoldIsSum ==
    Merge(parts[1], parts[2]) =
        [objs |-> Cardinality(Folded),
         data |-> SumOf(Folded, "size"),
         ttfb |-> SumOf(Folded, "ttfb"),
         rtt  |-> SumOf(Folded, "rtt")]

C14_Witness ==
    /\ Len(recs) = MaxRecs
    /\ left = {}
    /\ recs[1] # recs[2]
    /\ parts[1].objs >= 1
    /\ parts[2].objs >= 1

\* C15: no rendering of a WorkerStat divides by zero, whatever its object
\* count and the elapsed time.
C15_NoDivisionByZero == rendered # DivByZero

\* One of the configuration errors the claim names.
ConfigError ==
    \/ cfg.distr = "bad"
    \/ cfg.conc < 1
    \/ WorkerNew(cfg.target) = "panicked"

NoThreadStarted ==
    /\ smap = "unborn"
    /\ cpc = "unborn"
    /\ \A w \in Workers : pc[w] = "unborn"

\* C16: with an ill-formed distribution, an invalid target or a concurrency
\* below 1, no worker, collector or state-trace listener thread is ever
\* started.
C16_ConfigErrorBeforeThreads == ConfigError => NoThreadStarted

\* C19: with a read list, no worker thread is started before the queue is
\* seeded; with a read list that cannot be read, no worker or collector
\* thread is ever started.
C19_SeedBeforeWorkers ==
    /\ (cfg.readlist = "ok" /\ \E w \in Workers : pc[w] # "unborn") => seeded
    /\ cfg.readlist = "bad" =>
          (cpc = "unborn" /\ \A w \in Workers : pc[w] = "unborn")

C19_Witness ==
    /\ cfg.readlist = "ok"
    /\ seeded
    /\ Len(queue) = Capacity
    /\ spawned = NumWorkers
    /\ cpc # "unborn"

\* The workers inside a critical section of the queue.
InCritical == {w \in Workers : pc[w] = "insert"}

\* C17: at most one worker is in a critical section of the queue, and it is
\* the one that holds the lock; the lock is held for one insert only, not
\* during the transfer nor once the operation has returned.
C17_ScopedCriticalSections ==
    [][/\ Cardinality(InCritical) <= 1
       /\ Cardinality(InCritical') <= 1
       /\ \A w \in Workers : lock' = w <=> pc'[w] = "insert"
       /\ \A w \in Workers :
             lock = w =>
                \/ UNCHANGED <<lock, queue>>
                \/ lock' = 0 /\ queue' = QInsert(queue, put[w].fname)]_vars

C17_Witness ==
    \E w, v \in Workers :
        /\ lock = w
        /\ pc[w] = "insert"
        /\ pc[v] = "lock"
        /\ queue # <<>>

\* The PUT of worker w was answered 201 or 204.
Succeeded(w) == put[w].code = 201 \/ put[w].code = 204

\* C18: the queue holds the last identifiers of the writes that succeeded;
\* a write that has returned inserted its identifier exactly if it was
\* answered 201 or 204, and returned its record then, an error otherwise; a
\* write that has not yet succeeded has inserted nothing.
C18_InsertIffSucceeded ==
    /\ queue = LastN(hist, Capacity)
    /\ \A w \in Workers :
          /\ pc[w] = "ret" =>
                IF Succeeded(w)
                THEN /\ put[w].fname \in Range(hist)
                     /\ res[w] = OkSome("write", put[w].size)
                ELSE /\ put[w].fname \notin Range(hist)
                     /\ res[w] = Err
          /\ pc[w] \in {"put", "lock", "insert"} =>
                put[w].fname \notin Range(hist)

C18_Witness ==
    \E w, v \in Workers :
        /\ pc[w] = "ret" /\ Succeeded(w) /\ put[w].fname \in Range(queue)
        /\ pc[v] = "ret" /\ put[v].code = 500
        /\ Len(hist) = 2

\* C20: a stop message leaves a worker's stop channel only by the poll that
\* follows a record or an error, one message per poll; that poll reports a
\* stop when it takes a message and whenever the sender is dropped, and the
\* result is sent only when it reports none.
C20_OnePollPerResult ==
    [][\A w \in Workers :
          /\ sig'[w] < sig[w] =>
                /\ pc[w] = "result"
                /\ res[w].tag # "none"
                /\ sig'[w] = sig[w] - 1
          /\ (pc[w] = "result" /\ res[w].tag # "none" /\ pc'[w] # pc[w]) =>
                CASE sig[w] > 0 ->
                        sig'[w] = sig[w] - 1 /\ pc'[w] = "sleep"
                  [] sig[w] = 0 /\ CollectorGone ->
                        sig'[w] = 0 /\ pc'[w] = "sleep"
                  [] OTHER ->
                        sig'[w] = 0 /\ pc'[w] = "send"]_vars

C20_Witness ==
    \E w \in Workers :
        /\ Observed(w)
        /\ CollectorGone
        /\ sig[w] = 0
        /\ pc[w] = "result"
        /\ res[w].tag = "err"
        /\ ProcAlive

AllWorkersExited == \A w \in Workers : pc[w] \in {"returned", "panicked"}

\* C21: with -D, a run in which every worker thread has exited ends only
\* after the state-trace listener thread has ended and main's join on it
\* has returned.
C21_TraceJoinCompletes ==
    (cfg.debug /\ AllWorkersExited /\ ~ProcAlive) =>
        (smap = "done" /\ mpc = "done")

=============================================================================
